---------------------------- MODULE Spec2Model ----------------------------
(***************************************************************************)
(* Model of src/src/rlpyt_algos.py: the categorical (C51) projection and   *)
(* RL loss of PizeroModelCategoricalDQN.rl_loss, the rollout loss of       *)
(* PizeroModelCategoricalDQN.loss and the driver optimize_agent.           *)
(*                                                                         *)
(* Numbers.  Real quantities are exact rationals on a common denominator:  *)
(* a value x on the value axis is stored as the integer x * W(c), where    *)
(* W(c) = discount.den^n_step_return * (n_atoms - 1) * RetDen, so that the *)
(* support, the discounted support, the returns and delta_z are integers.  *)
(* A probability is a record [num, den].  Logarithms are fixed point, in   *)
(* units of 1e-6, additive over the prime factorisation (so equal          *)
(* rationals have equal logarithms).                                       *)
(***************************************************************************)
EXTENDS Integers, Sequences, FiniteSets, TLC

VARIABLES pc,         \* where the modelled computation stands
          cfg,        \* the algorithm's configuration (self.* set at construction)
          proj_in,    \* one batch row entering the projection of rl_loss
          proj_out,   \* shifted atoms, projection_coeffs and target_p of that row
          rl_in,      \* a whole batch entering rl_loss
          rl_out,     \* what rl_loss returns for it
          drv         \* the driver's state (optimize_agent)

vars == <<pc, cfg, proj_in, proj_out, rl_in, rl_out, drv>>

None == "None"

(***************************************************************************)
(* Bounds of the model.                                                    *)
(***************************************************************************)
\* returns are drawn from -MaxReturn/RetDen .. MaxReturn/RetDen
MaxReturn == 6
\* resolution of the returns: return_n is a multiple of 1/RetDen
RetDen == 2
\* an unprojected target distribution has probabilities k/Mass
Mass == 2

(***************************************************************************)
(* Arithmetic helpers.                                                     *)
(***************************************************************************)
RECURSIVE Pow(_, _)
Pow(b, e) == IF e = 0 THEN 1 ELSE b * Pow(b, e - 1)

Abs(x) == IF x < 0 THEN -x ELSE x

\* torch.clamp(x, lo, hi)
Clamp(x, lo, hi) == IF x < lo THEN lo ELSE IF x > hi THEN hi ELSE x

RECURSIVE SumTo(_, _)
\* sum of f[0] .. f[n-1]
SumTo(f, n) == IF n = 0 THEN 0 ELSE f[n - 1] + SumTo(f, n - 1)

Atoms(c) == 0 .. (c.n_atoms - 1)

(***************************************************************************)
(* rl_loss, lines 196-212: the support and the projection coefficients.    *)
(***************************************************************************)
\* the common denominator of the value axis
W(c) == Pow(c.discount.den, c.n_step_return) * (c.n_atoms - 1) * RetDen

\* delta_z = (V_max - V_min) / (n_atoms - 1), times W
delta_z(c) == ((c.V_max - c.V_min) * W(c)) \div (c.n_atoms - 1)

\* z = torch.linspace(V_min, V_max, n_atoms), times W
z(c) == [i \in Atoms(c) |-> c.V_min * W(c) + i * delta_z(c)]

\* next_z = z * (discount ** n_step_return)
discounted_z(c) ==
    [j \in Atoms(c) |->
        (z(c)[j] * Pow(c.discount.num, c.n_step_return))
            \div Pow(c.discount.den, c.n_step_return)]

\* ret = return_n.unsqueeze(1), times W; return_n is ret_num / RetDen
ret(c, ret_num) == ret_num * (W(c) \div RetDen)

\* a variant without the clamp to [V_min, V_max]
next_z_unclamped(c, ret_num, done_n) ==
    [j \in Atoms(c) |-> ret(c, ret_num) + (1 - done_n) * discounted_z(c)[j]]

\* next_z = clamp(ret + ger(1 - done_n, next_z), V_min, V_max), one row
next_z(c, ret_num, done_n) ==
    [j \in Atoms(c) |->
        Clamp(ret(c, ret_num) + (1 - done_n) * discounted_z(c)[j],
              c.V_min * W(c), c.V_max * W(c))]

\* a variant that drops the abs(): only the bin below a shifted atom gets weight
projection_coeffs_one_sided(c, nz) ==
    [i \in Atoms(c) |-> [j \in Atoms(c) |->
        Clamp(delta_z(c) - (nz[j] - z(c)[i]), 0, delta_z(c))]]

\* projection_coeffs = clamp(1 - abs(next_z_bc - z_bc) / delta_z, 0, 1),
\* times delta_z: coefficient [i][j] of base atom i and shifted atom j
projection_coeffs(c, nz) ==
    [i \in Atoms(c) |-> [j \in Atoms(c) |->
        Clamp(delta_z(c) - Abs(nz[j] - z(c)[i]), 0, delta_z(c))]]

\* target_p = (target_p_unproj * projection_coeffs).sum(-1), line 229:
\* numerators over the denominator delta_z * Mass
target_p(c, coeffs, unproj) ==
    [i \in Atoms(c) |->
        SumTo([j \in Atoms(c) |-> coeffs[i][j] * unproj[j]], c.n_atoms)]

(***************************************************************************)
(* Inputs of the projection.                                               *)
(***************************************************************************)
\* the distributions over n atoms with probabilities k/m
Dists(n, m) ==
    LET picks == {s \in [1 .. m -> 0 .. (n - 1)] :
                     \A k \in 1 .. (m - 1) : s[k] <= s[k + 1]}
    IN  {[i \in 0 .. (n - 1) |-> Cardinality({k \in 1 .. m : s[k] = i})] :
            s \in picks}

Returns == (-MaxReturn) .. MaxReturn

Half == [num |-> 1, den |-> 2]
One == [num |-> 1, den |-> 1]
NinetyNine == [num |-> 99, den |-> 100]

\* the flags and sizes the projection does not read
DriverDefaults ==
    [mid_batch_reset |-> TRUE, prioritized_replay |-> FALSE, jumps |-> 0,
     detach_model |-> TRUE, min_itr_learn |-> 0, updates_per_optimize |-> 1,
     target_update_interval |-> 1, batch_size |-> 1]

Config(vmin, vmax, n, disc, nstep, rest) ==
    [V_min |-> vmin, V_max |-> vmax, n_atoms |-> n, discount |-> disc,
     n_step_return |-> nstep,
     mid_batch_reset |-> rest.mid_batch_reset,
     prioritized_replay |-> rest.prioritized_replay,
     jumps |-> rest.jumps, detach_model |-> rest.detach_model,
     min_itr_learn |-> rest.min_itr_learn,
     updates_per_optimize |-> rest.updates_per_optimize,
     target_update_interval |-> rest.target_update_interval,
     batch_size |-> rest.batch_size]

\* a three-atom support on [-2, 2] and the eleven-atom support on [-10, 10]
ProjConfigs ==
    {Config(-2, 2, 3, d, n, DriverDefaults) : d \in {Half, One}, n \in {1, 2}}
    \cup {Config(-10, 10, 11, NinetyNine, 1, DriverDefaults)}

(***************************************************************************)
(* Specification SpecProj: the projection as a pure function of one row.   *)
(***************************************************************************)
InitProj ==
    /\ pc = "project"
    /\ cfg \in ProjConfigs
    /\ proj_in \in [return_n : Returns, done_n : {0, 1},
                    unproj : Dists(cfg.n_atoms, Mass)]
    /\ proj_out = None
    /\ rl_in = None
    /\ rl_out = None
    /\ drv = None

Project ==
    /\ pc = "project"
    /\ pc' = "projected"
    /\ LET nz == next_z(cfg, proj_in.return_n, proj_in.done_n)
           coeffs == projection_coeffs(cfg, nz)
       IN  proj_out' = [next_z |-> nz,
                        projection_coeffs |-> coeffs,
                        target_p |-> target_p(cfg, coeffs, proj_in.unproj)]
    /\ UNCHANGED <<cfg, proj_in, rl_in, rl_out, drv>>

NextProj == Project

SpecProj == InitProj /\ [][NextProj]_vars

(***************************************************************************)
(* rl_loss, lines 230-250: cross-entropy, the KL statistic and the mask.   *)
(***************************************************************************)
\* EPS = 1e-6 (line 17): 1/EPS, and EPS in the fixed-point unit of 1e-6
InvEPS == 1000000
EPS_micro == 1

EPS == [num |-> 1, den |-> InvEPS]

\* natural logarithms of the primes, in units of 1e-6
LnPrime ==
    (2 :> 693147) @@ (3 :> 1098612) @@ (5 :> 1609438) @@ (7 :> 1945910)
    @@ (11 :> 2397895) @@ (13 :> 2564949) @@ (17 :> 2833213)
    @@ (19 :> 2944439) @@ (23 :> 3135494) @@ (29 :> 3367296)
    @@ (31 :> 3433987) @@ (37 :> 3610918) @@ (41 :> 3713572)
    @@ (43 :> 3761200) @@ (47 :> 3850148)

PrimeFactor(k) == CHOOSE d \in DOMAIN LnPrime : k % d = 0

RECURSIVE LnNat(_)
\* log of a positive integer, additive over its prime factors
LnNat(k) == IF k = 1 THEN 0
            ELSE LET d == PrimeFactor(k) IN LnPrime[d] + LnNat(k \div d)

\* torch.log of a probability [num, den]
Log(q) == LnNat(q.num) - LnNat(q.den)

\* torch.clamp(q, EPS, 1) of a probability
ClampProb(q) ==
    IF q.num * EPS.den < EPS.num * q.den THEN EPS
    ELSE IF q.num > q.den THEN [num |-> 1, den |-> 1]
    ELSE q

\* x <= 1/EPS for x in units of 1e-6 (1/EPS itself is 1e12 units)
AtMostInvEPS(x) ==
    \/ x \div InvEPS < InvEPS
    \/ (x \div InvEPS = InvEPS /\ x % InvEPS = 0)

\* a variant that guards only the upper end
ClampKL_upper_only(x) == IF AtMostInvEPS(x) THEN x ELSE InvEPS * InvEPS

\* KL_div = torch.clamp(KL_div, EPS, 1 / EPS), line 241
ClampKL(x) ==
    IF x < EPS_micro THEN EPS_micro
    ELSE IF AtMostInvEPS(x) THEN x
    ELSE InvEPS * InvEPS

\* p = clamp(select_at_indexes(action, ps), EPS, 1), lines 231-232:
\* the live distribution of the action taken, probabilities k/p_mass
clamped_p(c, p, p_mass) ==
    [i \in Atoms(c) |-> ClampProb([num |-> p[i], den |-> p_mass])]

\* losses = -sum(target_p * log(p)), line 233, for one row, in units of 1e-6
cross_entropy(c, tp, t_den, cp) ==
    SumTo([i \in Atoms(c) |-> tp[i] * (0 - Log(cp[i]))], c.n_atoms) \div t_den

\* target_p = clamp(target_p, EPS, 1); KL_div = sum(target_p *
\* (log(target_p) - log(p))), lines 238-240, for one row, before its clamp
KL_raw(c, tp, t_den, cp) ==
    SumTo([i \in Atoms(c) |->
              LET tq == ClampProb([num |-> tp[i], den |-> t_den])
              IN  (tq.num * (Log(tq) - Log(cp[i]))) \div tq.den],
          c.n_atoms)

Rows(c) == 0 .. (c.batch_size - 1)

\* rlpyt.algos.utils.valid_from_done, called on done[1] (shape [B]) at line
\* 244: valid[0] = 1, valid[b] = 1 - clamp(cumsum(done[:b]), max=1)
valid_from_done(c, done) ==
    [b \in Rows(c) |->
        IF \E k \in Rows(c) : k < b /\ done[k] = 1 THEN 0 ELSE 1]

\* rlpyt.utils.tensor.valid_mean: (losses * valid).sum() / valid.sum()
valid_mean(c, losses, valid) ==
    SumTo([b \in Rows(c) |-> losses[b] * valid[b]], c.batch_size)
        \div SumTo(valid, c.batch_size)

\* rl_loss (lines 191-250) on a batch: rows[b] carries return_n, done_n, the
\* unprojected target distribution (probabilities k/u_mass), the live
\* distribution p (k/p_mass), is_weights (k/w_den) and done.  The unprojected
\* distribution is the row select_at_indexes(next_a, target_ps) picks from
\* the target network's output (lines 214-228); the networks are outside
\* this file, so with or without double_dqn it ranges over all distributions.
rl_loss(c, rows, u_mass, p_mass, w_den) ==
    LET tp == [b \in Rows(c) |->
                  target_p(c, projection_coeffs(c,
                               next_z(c, rows[b].return_n, rows[b].done_n)),
                           rows[b].unproj)]
        t_den == delta_z(c) * u_mass
        cp == [b \in Rows(c) |-> clamped_p(c, rows[b].p, p_mass)]
        ce == [b \in Rows(c) |-> cross_entropy(c, tp[b], t_den, cp[b])]
        losses == [b \in Rows(c) |->
                      IF c.prioritized_replay
                      THEN (ce[b] * rows[b].is_weights) \div w_den
                      ELSE ce[b]]
        KL == [b \in Rows(c) |-> ClampKL(KL_raw(c, tp[b], t_den, cp[b]))]
        valid == valid_from_done(c, [b \in Rows(c) |-> rows[b].done])
    IN  IF ~c.mid_batch_reset
        THEN [loss |-> valid_mean(c, losses, valid),
              KL_div |-> [b \in Rows(c) |-> KL[b] * valid[b]]]
        ELSE [loss |-> SumTo(losses, c.batch_size) \div c.batch_size,
              KL_div |-> KL]

(***************************************************************************)
(* Specification SpecRL: rl_loss as a pure function of a batch of two.     *)
(***************************************************************************)
\* the live distribution has probabilities k/PMass
PMass == 1

RLFlags(mbr, prio) ==
    [DriverDefaults EXCEPT !.mid_batch_reset = mbr,
                           !.prioritized_replay = prio,
                           !.batch_size = 2]

RLConfigs ==
    {Config(-2, 2, 3, Half, 1, RLFlags(mbr, prio)) :
        mbr \in BOOLEAN, prio \in BOOLEAN}

\* a row: return_n in {0, 1/RetDen}, a one-hot target distribution, a live
\* distribution, and the importance weight 1/2 under prioritized replay
\* (the float 1. otherwise, line 272)
RLRow(c) ==
    [return_n : {0, 1}, done_n : {0, 1},
     unproj : Dists(c.n_atoms, 1), p : Dists(c.n_atoms, PMass),
     is_weights : IF c.prioritized_replay THEN {1} ELSE {2},
     done : {0, 1}]

InitRL ==
    /\ pc = "rl_loss"
    /\ cfg \in RLConfigs
    /\ rl_in \in [Rows(cfg) -> RLRow(cfg)]
    /\ rl_out = None
    /\ proj_in = None
    /\ proj_out = None
    /\ drv = None

RlLoss ==
    /\ pc = "rl_loss"
    /\ pc' = "rl_returned"
    /\ rl_out' = rl_loss(cfg, rl_in, 1, PMass, 2)
    /\ UNCHANGED <<cfg, proj_in, proj_out, rl_in, drv>>

NextRL == RlLoss

SpecRL == InitRL /\ [][NextRL]_vars

(***************************************************************************)
(* loss, lines 252-306.  The losses are kept symbolic: a loss is the list  *)
(* of the terms summed into it.  A term records the jump it belongs to     *)
(* (the number of transition-model steps applied to the latent), the       *)
(* offset into the sample its target is read at, and whether it is         *)
(* multiplied by the importance-sampling weights.                          *)
(***************************************************************************)
\* the names bound at module level: the imports and definitions of lines 1-17
\* and the two classes (lines 20, 125)
ModuleGlobals ==
    {"torch", "namedarraytuple", "namedtuple", "CategoricalDQN",
     "select_at_indexes", "valid_mean", "valid_from_done",
     "AsyncPrioritizedSequenceReplayFrameBufferExtended",
     "AsyncUniformSequenceReplayFrameBufferExtended",
     "from_categorical", "to_categorical", "SamplesToBuffer", "OptInfo",
     "EPS", "PizeroCategoricalDQN", "PizeroModelCategoricalDQN"}

\* the attributes of the algorithm object that the classes set (lines 27-28,
\* 56, 131-139) or that their methods read in more than one place
AlgoAttributes ==
    {"jumps", "detach_model", "replay_buffer", "rank", "optimizer",
     "model_optimizer", "pri_beta_itr", "agent", "V_min", "V_max", "discount",
     "n_step_return", "double_dqn", "prioritized_replay", "mid_batch_reset",
     "replay_size", "pri_alpha", "pri_beta_init", "pri_beta_steps",
     "sampler_bs", "OptimCls", "learning_rate", "optim_kwargs",
     "initial_optim_state_dict", "min_itr_learn", "updates_per_optimize",
     "batch_size", "clip_grad_norm", "update_counter",
     "target_update_interval", "target_update_tau"}

RLTerm(j, return_offset, weighted) ==
    [kind |-> "rl", jump |-> j, target |-> return_offset, weighted |-> weighted]

RewardTerm(j, reward_offset) ==
    [kind |-> "reward", jump |-> j, target |-> reward_offset, weighted |-> FALSE]

NoLoss == [raised |-> "", line |-> 0, rl_loss |-> <<>>, KL |-> 0,
           model_loss |-> <<>>, scaled |-> FALSE]

Raise(exception, line) == [NoLoss EXCEPT !.raised = exception, !.line = line]

RECURSIVE rollout(_, _, _)
\* the loop of lines 282-301 from jump j on, l being the losses so far
rollout(c, l, j) ==
    IF j > c.jumps THEN l
    ELSE IF "prioritize_replay" \notin AlgoAttributes
         THEN Raise("AttributeError", 293)
    ELSE rollout(c,
             [l EXCEPT !.model_loss =
                 l.model_loss
                     \o <<RewardTerm(j, 0),
                          RLTerm(j, j, c.prioritized_replay)>>],
             j + 1)

\* loss(samples), lines 252-306, on the batch numbered `batch`.  Lines
\* 260-278 (stem_forward, the step-0 rl_loss, to_categorical and
\* reward_predictor) run first; line 280 then looks up the global name F.
loss(c, batch) ==
    LET step0 == [NoLoss EXCEPT
                     !.rl_loss = <<RLTerm(0, 1, c.prioritized_replay)>>,
                     !.KL = batch,
                     !.model_loss = <<RewardTerm(0, 0)>>]
    IN  IF "F" \notin ModuleGlobals
        THEN Raise("NameError", 280)
        ELSE LET l == rollout(c, step0, 1)
             IN  IF l.raised # "" THEN l
                 ELSE [l EXCEPT !.scaled = c.prioritized_replay]

(***************************************************************************)
(* optimize_agent, lines 141-189.  The driver's state is the update        *)
(* counter, the gradients left on the two parameter groups, and the trace  *)
(* of the calls made on the replay buffer, the optimizers and the agent.   *)
(***************************************************************************)
\* sampler_itr=None (line 141)
NoSamplerItr == -1

Event(op, arg) == [op |-> op, arg |-> arg]

EmptyOptInfo == [loss |-> <<>>, gradNorm |-> <<>>, tdAbsErr |-> <<>>]

\* a variant that ignores sampler_itr
effective_itr_ignoring_sampler(itr, sampler_itr) == itr

\* itr = itr if sampler_itr is None else sampler_itr, line 149
effective_itr(itr, sampler_itr) ==
    IF sampler_itr = NoSamplerItr THEN itr ELSE sampler_itr

\* one gradient update on the losses l of batch `batch`, lines 159-187
apply_update(c, d, l, batch) ==
    LET reaches_stem == (~c.detach_model) \/ c.jumps >= 1
        steps ==
            IF ~c.detach_model
            THEN <<Event("optimizer.zero_grad", batch),
                   Event("model_optimizer.zero_grad", batch),
                   Event("(loss + model_loss).backward", batch),
                   Event("clip_grad_norm_(agent.parameters())", batch),
                   Event("optimizer.step", batch),
                   Event("model_optimizer.step", batch)>>
            ELSE <<Event("optimizer.zero_grad", batch),
                   Event("loss.backward", batch),
                   Event("clip_grad_norm_(agent.parameters())", batch),
                   Event("optimizer.step", batch),
                   Event("model_optimizer.zero_grad", batch),
                   Event("model_loss.backward", batch),
                   Event("clip_grad_norm_(agent.parameters())", batch),
                   Event("model_optimizer.step", batch)>>
        \* the backward passes whose gradients each clipped step saw
        main_clip == IF ~c.detach_model THEN {"loss + model_loss"}
                     ELSE {"loss"} \cup d.grads.model
        model_clip == IF ~c.detach_model THEN {"loss + model_loss"}
                      ELSE {"loss", "model_loss"}
        grads == IF ~c.detach_model
                 THEN [stem |-> {"loss + model_loss"},
                       model |-> {"loss + model_loss"}]
                 ELSE [stem |-> {"loss"}
                                  \cup (IF reaches_stem THEN {"model_loss"} ELSE {}),
                       model |-> {"model_loss"}]
        pri == IF c.prioritized_replay
               THEN <<Event("update_batch_priorities", l.KL)>> ELSE <<>>
        counter == d.update_counter + 1
        tgt == IF counter % c.target_update_interval = 0
               THEN <<Event("update_target", counter)>> ELSE <<>>
    IN  [d EXCEPT !.trace = d.trace \o steps \o pri \o tgt,
                  !.grads = grads,
                  !.clipped = [main |-> main_clip, model |-> model_clip],
                  !.update_counter = counter,
                  !.opt_info = [loss |-> d.opt_info.loss \o <<batch>>,
                                gradNorm |-> d.opt_info.gradNorm \o <<batch>>,
                                tdAbsErr |-> d.opt_info.tdAbsErr \o <<l.KL>>]]

RECURSIVE update_loop(_, _, _)
\* for _ in range(updates_per_optimize), lines 156-187, k updates to go
update_loop(c, d, k) ==
    IF k = 0 THEN d
    ELSE LET batch == d.n_batches + 1
             d1 == [d EXCEPT !.trace = d.trace \o <<Event("sample_batch", batch)>>,
                             !.n_batches = batch]
             l == loss(c, batch)
             d2 == [d1 EXCEPT !.last_loss = l, !.loss_calls = d.loss_calls + 1]
         IN  IF l.raised # ""
             THEN [d2 EXCEPT !.outcome = l.raised]
             ELSE update_loop(c, apply_update(c, d2, l, batch), k - 1)

\* optimize_agent(itr, samples, sampler_itr), lines 141-189
optimize_agent(c, d, itr, has_samples, sampler_itr) ==
    LET eff == effective_itr(itr, sampler_itr)
        d0 == [d EXCEPT
                  !.calls = d.calls + 1,
                  !.call = [itr |-> itr, has_samples |-> has_samples,
                            sampler_itr |-> sampler_itr],
                  !.before = [update_counter |-> d.update_counter,
                              trace_len |-> Len(d.trace),
                              grads |-> d.grads,
                              n_batches |-> d.n_batches],
                  !.opt_info = EmptyOptInfo,
                  !.outcome = "returned"]
        d1 == IF has_samples
              THEN [d0 EXCEPT !.trace = d.trace \o <<Event("append_samples", d.calls + 1)>>]
              ELSE d0
    IN  IF eff < c.min_itr_learn THEN d1
        ELSE LET d2 == update_loop(c, d1, c.updates_per_optimize)
             IN  IF d2.outcome # "returned" THEN d2
                 ELSE [d2 EXCEPT !.trace =
                          d2.trace \o <<Event("update_itr_hyperparams", eff)>>]

(***************************************************************************)
(* Specification Spec: sequences of optimize_agent calls.                  *)
(***************************************************************************)
\* at most MaxCalls calls of optimize_agent, with itr in 0 .. MaxItr
MaxCalls == 3
MaxItr == 2

DrvFlags(j, detach, prio, warm) ==
    [DriverDefaults EXCEPT !.jumps = j, !.detach_model = detach,
                           !.prioritized_replay = prio,
                           !.min_itr_learn = warm,
                           !.updates_per_optimize = 2,
                           !.target_update_interval = 2,
                           !.batch_size = 2]

DrvConfigs ==
    {Config(-2, 2, 3, Half, 1, DrvFlags(j, detach, prio, warm)) :
        j \in {0, 1}, detach \in BOOLEAN, prio \in BOOLEAN, warm \in {1, 2}}

\* the state after construction and optim_initialize: no update made, no
\* gradient on any parameter, nothing called yet
InitDrv ==
    [update_counter |-> 0,
     grads |-> [stem |-> {}, model |-> {}],
     clipped |-> [main |-> {}, model |-> {}],
     trace |-> <<>>,
     n_batches |-> 0,
     calls |-> 0,
     call |-> [itr |-> 0, has_samples |-> FALSE, sampler_itr |-> NoSamplerItr],
     before |-> [update_counter |-> 0, trace_len |-> 0,
                 grads |-> [stem |-> {}, model |-> {}], n_batches |-> 0],
     opt_info |-> EmptyOptInfo,
     outcome |-> "",
     last_loss |-> NoLoss,
     loss_calls |-> 0]

Init ==
    /\ pc = "idle"
    /\ cfg \in DrvConfigs
    /\ drv = InitDrv
    /\ proj_in = None
    /\ proj_out = None
    /\ rl_in = None
    /\ rl_out = None

OptimizeAgent ==
    /\ pc = "idle"
    /\ drv.calls < MaxCalls
    /\ \E itr \in 0 .. MaxItr, has_samples \in BOOLEAN,
          sampler_itr \in {NoSamplerItr} \cup (0 .. MaxItr) :
           drv' = optimize_agent(cfg, drv, itr, has_samples, sampler_itr)
    /\ UNCHANGED <<pc, cfg, proj_in, proj_out, rl_in, rl_out>>

Next == OptimizeAgent

Spec == Init /\ [][Next]_vars

(***************************************************************************)
(* Claims about the projection (SpecProj).                                 *)
(***************************************************************************)
Projected == pc = "projected"

\* C1: projection mass conservation.  For every row, return, done_n flag and
\* unprojected distribution summing to 1, the projected target_p sums to 1:
\* its numerators (over delta_z * Mass) sum to delta_z times the mass of the
\* unprojected distribution.
C1_MassConservation ==
    Projected =>
        /\ SumTo(proj_in.unproj, cfg.n_atoms) = Mass
        /\ \A i \in Atoms(cfg) : proj_out.target_p[i] >= 0
        /\ SumTo(proj_out.target_p, cfg.n_atoms) = delta_z(cfg) * Mass

\* a row whose mass sits on two atoms, one shifted beyond V_max (clamped) and
\* one shifted strictly between two support points
C1_Witness ==
    /\ Projected
    /\ \E j, k \in Atoms(cfg) :
        /\ j # k
        /\ proj_in.unproj[j] > 0
        /\ proj_in.unproj[k] > 0
        /\ ret(cfg, proj_in.return_n) + (1 - proj_in.done_n) * discounted_z(cfg)[j]
              > cfg.V_max * W(cfg)
        /\ \A i \in Atoms(cfg) : proj_out.next_z[k] # z(cfg)[i]

\* the shifted value of source atom j as the claim states it
ShiftedOfClaim(j) ==
    Clamp(ret(cfg, proj_in.return_n)
             + (1 - proj_in.done_n) * discounted_z(cfg)[j],
          cfg.V_min * W(cfg), cfg.V_max * W(cfg))

NonZeroBins(j) == {i \in Atoms(cfg) : proj_out.projection_coeffs[i][j] > 0}

IsExampleRow ==
    /\ cfg.V_min = -10 /\ cfg.V_max = 10 /\ cfg.n_atoms = 11
    /\ cfg.n_step_return = 1
    /\ proj_in.return_n = RetDen
    /\ proj_in.done_n = 0
    /\ proj_in.unproj[5] = Mass

\* C2: projection interpolation.  Every source atom gives non-zero weight to
\* one bin or to two adjacent bins of the support, the weight of bin i being
\* 1 - |shifted - support[i]| / bin_width (stored times delta_z); a shifted
\* value on a support point, clamped or not, puts the whole mass on that bin;
\* and the example row (V in [-10, 10], 11 atoms, one step, return 1, not
\* done, one-hot at index 5) projects to 1/2 at index 5 and 1/2 at index 6.
C2_Interpolation ==
    Projected =>
        /\ \A j \in Atoms(cfg) :
            /\ Cardinality(NonZeroBins(j)) \in {1, 2}
            /\ \A i, k \in NonZeroBins(j) : Abs(i - k) <= 1
            /\ \A i \in NonZeroBins(j) :
                  proj_out.projection_coeffs[i][j]
                      = delta_z(cfg) - Abs(ShiftedOfClaim(j) - z(cfg)[i])
            /\ \A i \in Atoms(cfg) :
                  ShiftedOfClaim(j) = z(cfg)[i] =>
                      /\ NonZeroBins(j) = {i}
                      /\ proj_out.projection_coeffs[i][j] = delta_z(cfg)
        /\ IsExampleRow =>
              \A i \in Atoms(cfg) :
                  2 * proj_out.target_p[i]
                      = IF i \in {5, 6} THEN delta_z(cfg) * Mass ELSE 0

\* the example row, projected onto indices 5 and 6
C2_Witness ==
    /\ Projected
    /\ IsExampleRow
    /\ proj_out.target_p[5] > 0
    /\ proj_out.target_p[6] > 0

(***************************************************************************)
(* Claims about the KL statistic (SpecRL).                                 *)
(***************************************************************************)
RlReturned == pc = "rl_returned"

InRangeEPS(x) == x >= EPS_micro /\ AtMostInvEPS(x)

\* the row is masked: an earlier row of the batch carries done = 1
Masked(b) == \E k \in Rows(cfg) : k < b /\ rl_in[k].done = 1

Called == drv.calls > 0

\* the effective iteration of the last call, as the claims state it
ClaimedItr ==
    IF drv.call.sampler_itr = NoSamplerItr THEN drv.call.itr
    ELSE drv.call.sampler_itr

WarmUp == ClaimedItr < cfg.min_itr_learn

\* the calls the last optimize_agent made on its collaborators
NewEvents == SubSeq(drv.trace, drv.before.trace_len + 1, Len(drv.trace))

\* C3: warm-up gate.  A call whose effective iteration (sampler_itr when
\* given, else itr) is below min_itr_learn returns an OptInfo of three empty
\* lists and leaves the optimization state as it was: no batch sampled, no
\* optimizer zeroed or stepped, update_counter and the gradients unchanged,
\* no target update, no priorities; supplied samples are appended first.
C3_WarmUpGate ==
    (Called /\ WarmUp) =>
        /\ drv.outcome = "returned"
        /\ drv.opt_info = EmptyOptInfo
        /\ drv.update_counter = drv.before.update_counter
        /\ drv.grads = drv.before.grads
        /\ drv.n_batches = drv.before.n_batches
        /\ Len(NewEvents) = (IF drv.call.has_samples THEN 1 ELSE 0)
        /\ \A k \in DOMAIN NewEvents : NewEvents[k].op = "append_samples"

\* a warm-up call decided by sampler_itr (itr alone is past the threshold),
\* with samples, made after an earlier call had gone past warm-up
C3_Witness ==
    /\ Called
    /\ WarmUp
    /\ drv.call.itr >= cfg.min_itr_learn
    /\ drv.call.has_samples
    /\ drv.n_batches > 0
    /\ drv.trace[Len(drv.trace)].op = "append_samples"

Count(op) == Cardinality({k \in DOMAIN drv.trace : drv.trace[k].op = op})

\* C4: target-update cadence.  After any sequence of calls update_counter
\* has grown by updates_per_optimize per call past warm-up and by 0 per
\* warm-up call, and update_target has been called exactly once per update
\* that brought update_counter to a multiple of target_update_interval,
\* after that update's optimizer steps.
C4_AsStated ==
    Called =>
        /\ drv.update_counter
              = drv.before.update_counter
                   + (IF WarmUp THEN 0 ELSE cfg.updates_per_optimize)
        /\ Count("update_target")
              = drv.update_counter \div cfg.target_update_interval
        /\ \A k \in DOMAIN drv.trace :
              drv.trace[k].op = "update_target" =>
                  /\ drv.trace[k].arg % cfg.target_update_interval = 0
                  /\ \E m \in 1 .. (k - 1) :
                        drv.trace[m].op = "model_optimizer.step"

DetachedCycle ==
    <<"optimizer.zero_grad", "loss.backward",
      "clip_grad_norm_(agent.parameters())", "optimizer.step",
      "model_optimizer.zero_grad", "model_loss.backward",
      "clip_grad_norm_(agent.parameters())", "model_optimizer.step">>

\* C5: detached-mode isolation.  With detach_model true every update (every
\* sampled batch) runs zero, backward, clip, step of the main optimizer on
\* rl_loss and then of the model optimizer on model_loss, and each clipped
\* step is decided by the gradient of its own loss alone.
C5_AsStated ==
    (Called /\ cfg.detach_model) =>
        /\ \A k \in DOMAIN drv.trace :
              drv.trace[k].op = "sample_batch" =>
                  /\ k + Len(DetachedCycle) <= Len(drv.trace)
                  /\ \A m \in DOMAIN DetachedCycle :
                        /\ drv.trace[k + m].op = DetachedCycle[m]
                        /\ drv.trace[k + m].arg = drv.trace[k].arg
        /\ drv.clipped.main \subseteq {"loss"}
        /\ drv.clipped.model \subseteq {"model_loss"}

\* C6: priority feedback.  Under prioritized replay each update pushes the
\* KL vector of the batch it sampled exactly once, after its optimizer steps
\* and before the next sample_batch; without it nothing is ever pushed.
C6_AsStated ==
    Called =>
        IF cfg.prioritized_replay
        THEN \A k \in DOMAIN drv.trace :
                drv.trace[k].op = "sample_batch" =>
                    \E m \in (k + 1) .. Len(drv.trace) :
                        /\ drv.trace[m] = Event("update_batch_priorities",
                                                drv.trace[k].arg)
                        /\ \A n \in (k + 1) .. (m - 1) :
                              drv.trace[n].op \notin
                                  {"sample_batch", "update_batch_priorities"}
                        /\ \E n \in (k + 1) .. (m - 1) :
                              drv.trace[n].op = "model_optimizer.step"
        ELSE Count("update_batch_priorities") = 0

LossCalled == drv.loss_calls > 0

Terms(kind, j) ==
    {k \in DOMAIN drv.last_loss.model_loss :
        /\ drv.last_loss.model_loss[k].kind = kind
        /\ drv.last_loss.model_loss[k].jump = j}

\* C8: per-jump reward target.  For every jump j in 1..jumps the
\* reward-prediction loss added to model_loss has samples.all_reward[j] as
\* its target.
C8_AsStated ==
    LossCalled =>
        \A j \in 1 .. cfg.jumps :
            /\ Terms("reward", j) # {}
            /\ \A k \in Terms("reward", j) :
                  drv.last_loss.model_loss[k].target = j

\* C9: composition of model_loss.  loss returns the step-0 RL loss and its
\* KL, and a model_loss made of the step-0 reward-prediction loss plus one
\* reward-prediction loss and one RL loss per jump; with jumps = 0 it is the
\* single-step reward-prediction loss alone.
C9_AsStated ==
    LossCalled =>
        /\ Len(drv.last_loss.model_loss) = 1 + 2 * cfg.jumps
        /\ Cardinality(Terms("reward", 0)) = 1
        /\ Terms("rl", 0) = {}
        /\ \A j \in 1 .. cfg.jumps :
              /\ Cardinality(Terms("reward", j)) = 1
              /\ Cardinality(Terms("rl", j)) = 1
        /\ Len(drv.last_loss.rl_loss) = 1
        /\ drv.last_loss.rl_loss[1].jump = 0
        /\ drv.last_loss.KL = drv.n_batches

\* C10: uniform importance weighting.  For jumps >= 1 loss completes without
\* raising, and every jump's RL loss is weighted exactly when
\* prioritized_replay is set, like the step-0 RL loss and the final scaling.
C10_AsStated ==
    (LossCalled /\ cfg.jumps >= 1) =>
        /\ drv.last_loss.raised = ""
        /\ \A k \in DOMAIN drv.last_loss.model_loss :
              drv.last_loss.model_loss[k].kind = "rl" =>
                  drv.last_loss.model_loss[k].weighted = cfg.prioritized_replay
        /\ drv.last_loss.scaled = cfg.prioritized_replay

=============================================================================
